---- MODULE Spec2Model ----
(***************************************************************************)
(* Model of src/fast_api.py: analyze_video_endpoint downloads a video,     *)
(* analyze_video_stream samples it once per second, classifies the face    *)
(* detections, decides on a screenshot and appends one record per second.  *)
(*                                                                         *)
(* Python values are represented as follows.  None is the empty tuple.     *)
(* A frame is a non-empty tuple of BGR pixels <<b, g, r>>.  The frame rate *)
(* reported by cv2 is a rational <<num, den>> with den > 0.  A detector    *)
(* output is the tuple of the detections' bbox.xmin, in tenths.  A temp    *)
(* file path is a record [stem, ext].                                      *)
(***************************************************************************)
EXTENDS Integers, Sequences, FiniteSets

VARIABLES
    pc,                     \* position in analyze_video_endpoint ("raised": left by an uncaught exception)
    video_url,              \* argument of analyze_video_endpoint
    status_code,            \* response.status_code in download_video (0: no request made)
    video_path,             \* path returned by download_video
    temp_files,             \* temporary local files that exist
    raw_fps,                \* what cap.get(cv2.CAP_PROP_FPS) returned
    fps,                    \* effective frame rate of analyze_video_stream
    frame_count,
    last_processed_second,
    prev_frame,
    frame,                  \* the frame returned by the latest cap.read()
    results_list,
    detector_log,           \* one entry per face_detection.process call of a completed iteration: the detections it returned
    screenshot_calls,       \* one entry per save_screenshot call that returned
    ret,                    \* what analyze_video_endpoint returned
    ref                     \* the same loop, fed the same frames and detections, with a sink that never fails

vars == <<pc, video_url, status_code, video_path, temp_files, raw_fps, fps, frame_count,
          last_processed_second, prev_frame, frame, results_list,
          detector_log, screenshot_calls, ret, ref>>

----------------------------------------------------------------------------
(* Bounds and input alphabets *)

MaxFrames == 4

None == <<>>

Black  == <<0, 0, 0>>
Grey50 == <<50, 50, 50>>
Grey52 == <<52, 52, 52>>

\* mean luminance differences between them: 50, 51 and 1
Frames == { <<Black, Black>>, <<Grey50, Grey50>>, <<Grey50, Grey52>> }

\* results.detections as the bbox.xmin of each detection, in tenths, in the
\* detector's order: none, one, two and three faces, on both sides of 0.3 and 0.7
DetectorOutputs ==
    { <<>>, <<2>>, <<3>>, <<5>>, <<7>>, <<8>>, <<2, 5>>, <<5, 8>>, <<8, 2>>, <<2, 8, 7>> }

\* cap.get(cv2.CAP_PROP_FPS): 0 when unavailable
RawFpsValues == { <<0, 1>>, <<0 - 1, 1>>, <<2, 1>>, <<5, 2>>, <<30, 1>> }

VideoUrls == { "", "https://host/recordings/video.mp4" }

StatusCodes == {200, 404, 500}

TempVideo == [stem |-> "tmpvideo", ext |-> "mp4"]
TempShot  == [stem |-> "tmpshot", ext |-> "jpg"]

AccountName == "account"
ContainerName == "container"

----------------------------------------------------------------------------
(* Pure functions *)

Abs(n) == IF n < 0 THEN 0 - n ELSE n

\* cv2.cvtColor(.., COLOR_BGR2GRAY) on one 8-bit pixel (fixed point, 14 bits)
Gray(p) == (p[1] * 1868 + p[2] * 9617 + p[3] * 4899 + 8192) \div 16384

RECURSIVE SumAbsDiff(_, _, _)
SumAbsDiff(a, b, i) ==
    IF i > Len(a) THEN 0
    ELSE Abs(Gray(a[i]) - Gray(b[i])) + SumAbsDiff(a, b, i + 1)

Threshold == 50

\* the comparison without the None check, a missing frame read as a black one
detect_tab_switch_NoNoneCheck(prev, current) ==
    LET base == IF prev = None THEN [i \in 1..Len(current) |-> Black] ELSE prev
    IN  SumAbsDiff(base, current, 1) > Threshold * Len(current)

\* np.mean(diff) > threshold, without the division
detect_tab_switch(prev, current) ==
    IF prev = None \/ current = None THEN FALSE
    ELSE SumAbsDiff(prev, current, 1) > Threshold * Len(current)

\* str(tab_switched).lower()
StrLower(b) == IF b THEN "true" ELSE "false"

\* the first detection wins: later ones do not overwrite head_position
RECURSIVE HeadLoop_FirstWins(_, _, _)
HeadLoop_FirstWins(dets, i, head) ==
    IF i > Len(dets) THEN head
    ELSE HeadLoop_FirstWins(dets, i + 1,
                  IF head # "unknown" THEN head
                  ELSE IF dets[i] < 3 THEN "left"
                  ELSE IF dets[i] > 7 THEN "right"
                  ELSE "forward")

\* the for loop over results.detections: each detection overwrites head_position
RECURSIVE HeadLoop(_, _, _)
HeadLoop(dets, i, head) ==
    IF i > Len(dets) THEN head
    ELSE HeadLoop(dets, i + 1,
                  IF dets[i] < 3 THEN "left"
                  ELSE IF dets[i] > 7 THEN "right"
                  ELSE "forward")

\* the classification without its else branch
HeadPosition_NoElse(dets) == HeadLoop(dets, 1, "unknown")

\* several faces classified as away
HeadPosition_ManyIsAway(dets) ==
    IF Len(dets) = 1 THEN HeadLoop(dets, 1, "unknown") ELSE "away"

HeadPosition(dets) ==
    IF dets # None THEN HeadLoop(dets, 1, "unknown") ELSE "away"

\* "face_count > 1" written as "face_count > 2"
MultipleFaceDetection_OffByOne(dets) ==
    IF dets # None /\ Len(dets) > 2 THEN "true" ELSE "false"

MultipleFaceDetection(dets) ==
    IF dets # None /\ Len(dets) > 1 THEN "true" ELSE "false"

\* the rule without its last disjunct
ShouldCapture_OnlyForward(head_position, tab_switched, multiple_face_detection) ==
    head_position = "forward" /\ (tab_switched \/ multiple_face_detection = "true")

ShouldCapture(head_position, tab_switched, multiple_face_detection) ==
    \/ head_position = "forward" /\ (tab_switched \/ multiple_face_detection = "true")
    \/ head_position # "forward"

\* os.path.basename(video_path).split('.')[0]
VideoName(path) == path.stem

\* the name built without the second
ScreenshotName_NoTimestamp(video_name, timestamp) == <<video_name, "_screenshot_", ".jpg">>

ScreenshotName(video_name, timestamp) == <<video_name, "_screenshot_", timestamp, ".jpg">>

\* the URL returned whether or not the upload raised
upload_to_azure_AlwaysUrl(blob_name, sink_ok) == <<AccountName, ContainerName, blob_name>>

\* the URL on success, None when the upload raised
upload_to_azure(blob_name, sink_ok) ==
    IF sink_ok THEN <<AccountName, ContainerName, blob_name>> ELSE None

\* the function without its "return azure_url"
save_screenshot_NoReturn(timestamp, video_name, sink_ok) == None

save_screenshot(timestamp, video_name, sink_ok) ==
    upload_to_azure(ScreenshotName(video_name, timestamp), sink_ok)

FallbackFps == 30

\* another default than 30
EffectiveFps_OtherDefault(raw) == IF raw[1] = 0 \/ raw[1] <= 0 THEN <<25, 1>> ELSE raw

\* "if not fps or fps <= 0: fps = 30"
EffectiveFps(raw) == IF raw[1] = 0 \/ raw[1] <= 0 THEN <<FallbackFps, 1>> ELSE raw

\* int(frame_count / fps)
Timestamp(count, rate) == (count * rate[2]) \div rate[1]

----------------------------------------------------------------------------
(* One iteration of the while loop of analyze_video_stream on a read frame. *)
(* st holds the loop's variables; the result holds their new values.         *)

\* "prev_frame = frame.copy()" indented under the screenshot branch
Sampled_BaselineOnCapture(st, f, dets, sink_ok) ==
    LET ts    == Timestamp(st.frame_count + 1, st.fps)
        tab   == detect_tab_switch(st.prev_frame, f)
        head  == HeadPosition(dets)
        multi == MultipleFaceDetection(dets)
        shoot == ShouldCapture(head, tab, multi)
        url   == IF shoot THEN save_screenshot(ts, st.video_name, sink_ok) ELSE None
    IN  [ st EXCEPT
            !.frame_count = st.frame_count + 1,
            !.last_processed_second = ts,
            !.detector_log = Append(st.detector_log, dets),
            !.screenshot_calls =
                IF shoot
                THEN Append(st.screenshot_calls,
                            [timestamp |-> ts, name |-> ScreenshotName(st.video_name, ts), ok |-> sink_ok])
                ELSE st.screenshot_calls,
            !.results_list =
                Append(st.results_list,
                       [ time |-> ts,
                         head_position |-> head,
                         multiple_face_detection |-> multi,
                         tab_switched |-> StrLower(tab),
                         screenshot_url |-> IF url # None THEN url ELSE None ]),
            !.prev_frame = IF shoot THEN f ELSE st.prev_frame ]

Sampled(st, f, dets, sink_ok) ==
    LET ts    == Timestamp(st.frame_count + 1, st.fps)
        tab   == detect_tab_switch(st.prev_frame, f)
        head  == HeadPosition(dets)
        multi == MultipleFaceDetection(dets)
        shoot == ShouldCapture(head, tab, multi)
        url   == IF shoot THEN save_screenshot(ts, st.video_name, sink_ok) ELSE None
    IN  [ st EXCEPT
            !.frame_count = st.frame_count + 1,
            !.last_processed_second = ts,
            !.detector_log = Append(st.detector_log, dets),
            !.screenshot_calls =
                IF shoot
                THEN Append(st.screenshot_calls,
                            [timestamp |-> ts, name |-> ScreenshotName(st.video_name, ts), ok |-> sink_ok])
                ELSE st.screenshot_calls,
            !.results_list =
                Append(st.results_list,
                       [ time |-> ts,
                         head_position |-> head,
                         multiple_face_detection |-> multi,
                         tab_switched |-> StrLower(tab),
                         screenshot_url |-> IF url # None THEN url ELSE None ]),
            !.prev_frame = f ]

\* the throttle comparing with >= instead of >
NewSecond_NotStrict(st) == Timestamp(st.frame_count + 1, st.fps) >= st.last_processed_second

\* whether the loop body processes the next frame read ("if timestamp_in_seconds > last_processed_second")
NewSecond(st) == Timestamp(st.frame_count + 1, st.fps) > st.last_processed_second

Iteration(st, f, dets, sink_ok) ==
    IF NewSecond(st)
    THEN Sampled(st, f, dets, sink_ok)
    ELSE [ st EXCEPT !.frame_count = st.frame_count + 1 ]

LoopState ==
    [ fps |-> fps, video_name |-> VideoName(video_path), frame_count |-> frame_count,
      last_processed_second |-> last_processed_second, prev_frame |-> prev_frame,
      results_list |-> results_list, detector_log |-> detector_log,
      screenshot_calls |-> screenshot_calls ]

NoReturn == [kind |-> "none", error |-> "", analysis_result |-> <<>>]

----------------------------------------------------------------------------
(* State machine *)

Init ==
    /\ pc = "start"
    /\ video_url \in VideoUrls
    /\ status_code = 0
    /\ video_path = None
    /\ temp_files = {}
    /\ raw_fps = None
    /\ fps = None
    /\ frame_count = 0
    /\ last_processed_second = 0 - 1
    /\ prev_frame = None
    /\ frame = None
    /\ results_list = <<>>
    /\ detector_log = <<>>
    /\ screenshot_calls = <<>>
    /\ ret = NoReturn
    /\ ref = None

loopVars == <<raw_fps, fps, frame_count, last_processed_second, prev_frame, frame,
              results_list, detector_log, screenshot_calls, ref>>

\* analyze_video_endpoint: "if not video_url"
NoVideoUrl ==
    /\ pc = "start"
    /\ video_url = ""
    /\ pc' = "done"
    /\ ret' = [NoReturn EXCEPT !.kind = "error", !.error = "No video URL provided"]
    /\ UNCHANGED <<video_url, status_code, video_path, temp_files, loopVars>>

\* any status below 500 taken as success
DownloadOk_Below500(status) == status < 500

\* download_video: "if response.status_code == 200"
DownloadOk(status) == status = 200

\* download_video and the check of its result
DownloadVideo(status) ==
    /\ pc = "start"
    /\ video_url # ""
    /\ status_code' = status
    /\ IF DownloadOk(status)
       THEN /\ video_path' = TempVideo
            /\ temp_files' = temp_files \cup {TempVideo}
            /\ pc' = "analyze"
            /\ ret' = ret
       ELSE /\ video_path' = None
            /\ temp_files' = temp_files
            /\ pc' = "done"
            /\ ret' = [NoReturn EXCEPT !.kind = "error",
                                       !.error = "Failed to download video from the URL provided"]
    /\ UNCHANGED <<video_url, loopVars>>

\* analyze_video_stream up to the loop
OpenCapture(raw) ==
    /\ pc = "analyze"
    /\ pc' = "loop"
    /\ raw_fps' = raw
    /\ fps' = EffectiveFps(raw)
    /\ frame_count' = 0
    /\ results_list' = <<>>
    /\ last_processed_second' = 0 - 1
    /\ prev_frame' = None
    /\ ref' = [LoopState EXCEPT !.fps = EffectiveFps(raw)]
    /\ UNCHANGED <<video_url, status_code, video_path, temp_files, frame,
                   detector_log, screenshot_calls, ret>>

\* the detector outputs that matter to the reference loop on the next frame
RefOutputs == IF NewSecond(ref) THEN DetectorOutputs ELSE { None }

\* one iteration of the loop, cap.read() returning a frame of a second already processed
SkipFrame(f) ==
    /\ pc = "loop"
    /\ ~NewSecond(LoopState)
    /\ frame' = f
    /\ frame_count' = frame_count + 1
    /\ \E dets \in RefOutputs : ref' = Iteration(ref, f, dets, TRUE)
    /\ UNCHANGED <<pc, video_url, status_code, video_path, temp_files, raw_fps, fps, ret,
                   last_processed_second, prev_frame, results_list,
                   detector_log, screenshot_calls>>

\* one iteration of the loop, cap.read() returning the first frame of a new second
SampleFrame(f, dets, sink_ok) ==
    /\ pc = "loop"
    /\ NewSecond(LoopState)
    /\ frame' = f
    /\ \E new \in { Sampled(LoopState, f, dets, sink_ok) } :
           /\ frame_count' = new.frame_count
           /\ last_processed_second' = new.last_processed_second
           /\ prev_frame' = new.prev_frame
           /\ results_list' = new.results_list
           /\ detector_log' = new.detector_log
           /\ screenshot_calls' = new.screenshot_calls
    /\ ref' = Iteration(ref, f, dets, TRUE)
    /\ UNCHANGED <<pc, video_url, status_code, video_path, temp_files, raw_fps, fps, ret>>

\* "if not ret: continue": a failed read does not leave the loop
EndOfStream_KeepsReading ==
    /\ pc = "loop"
    /\ UNCHANGED vars

\* cap.read() returns ret = False (or the capture never opened): the loop ends,
\* analyze_video_stream returns, the endpoint removes the video and returns
EndOfStream ==
    /\ pc = "loop"
    /\ pc' = "done"
    /\ temp_files' = temp_files \ {video_path}
    /\ ret' = [NoReturn EXCEPT !.kind = "analysis_result", !.analysis_result = results_list]
    /\ UNCHANGED <<video_url, status_code, video_path, loopVars>>

\* download_video left by an exception: requests.get raises before any file
\* exists, or a write raises after NamedTemporaryFile(delete=False) created it
DownloadRaises(created) ==
    /\ pc = "start"
    /\ video_url # ""
    /\ pc' = "raised"
    /\ status_code' = IF created THEN 200 ELSE status_code
    /\ temp_files' = IF created THEN temp_files \cup {TempVideo} ELSE temp_files
    /\ UNCHANGED <<video_url, video_path, ret, loopVars>>

\* the loop body left by an exception while a sampled frame is analysed
\* (cv2.cvtColor, face_detection.process): nothing catches it
AnalysisRaises ==
    /\ pc = "loop"
    /\ NewSecond(LoopState)
    /\ pc' = "raised"
    /\ UNCHANGED <<video_url, status_code, video_path, temp_files, ret, loopVars>>

\* save_screenshot left by an exception in cv2.imwrite, after
\* NamedTemporaryFile(delete=False) created the local file
ScreenshotRaises ==
    /\ pc = "loop"
    /\ NewSecond(LoopState)
    /\ pc' = "raised"
    /\ temp_files' = temp_files \cup {TempShot}
    /\ UNCHANGED <<video_url, status_code, video_path, ret, loopVars>>

Next ==
    \/ NoVideoUrl
    \/ \E status \in StatusCodes : DownloadVideo(status)
    \/ \E raw \in RawFpsValues : OpenCapture(raw)
    \/ \E f \in Frames : frame_count < MaxFrames /\ SkipFrame(f)
    \/ \E f \in Frames, dets \in DetectorOutputs, sink_ok \in BOOLEAN :
          frame_count < MaxFrames /\ SampleFrame(f, dets, sink_ok)
    \/ EndOfStream
    \/ \E created \in BOOLEAN : DownloadRaises(created)
    \/ frame_count < MaxFrames /\ AnalysisRaises
    \/ frame_count < MaxFrames /\ ScreenshotRaises

Spec == Init /\ [][Next]_vars

----------------------------------------------------------------------------
(* The synthetic stream of three seconds at 30 frames per second: every    *)
(* frame identical, the detector finding no face, the sink succeeding.     *)

ScenarioFps == <<FallbackFps, 1>>
ScenarioFrames == 3 * FallbackFps

InitScenario == Init /\ video_url # ""

\* every frame of the stream equals the first one
SameFrame(f) == prev_frame = None \/ f = prev_frame

NextScenario ==
    \/ DownloadVideo(200)
    \/ OpenCapture(ScenarioFps)
    \/ \E f \in Frames : frame_count < ScenarioFrames /\ SameFrame(f) /\ SkipFrame(f)
    \/ \E f \in Frames : frame_count < ScenarioFrames /\ SameFrame(f) /\ SampleFrame(f, None, TRUE)
    \/ frame_count = ScenarioFrames /\ EndOfStream

SpecScenario == InitScenario /\ [][NextScenario]_vars

----------------------------------------------------------------------------
(* Streams of a little over two seconds whose frame rate is unavailable,   *)
(* negative or declared as 30.                                             *)

FallbackRawFps == { <<0, 1>>, <<0 - 1, 1>>, <<FallbackFps, 1>> }
FallbackFrames == 2 * FallbackFps + 1
FallbackOutputs == { <<>>, <<5>> }

NextFallback ==
    \/ DownloadVideo(200)
    \/ \E raw \in FallbackRawFps : OpenCapture(raw)
    \/ \E f \in Frames : frame_count < FallbackFrames /\ SkipFrame(f)
    \/ \E f \in Frames, dets \in FallbackOutputs, sink_ok \in BOOLEAN :
          frame_count < FallbackFrames /\ SampleFrame(f, dets, sink_ok)
    \/ EndOfStream

SpecFallback == InitScenario /\ [][NextFallback]_vars

----------------------------------------------------------------------------
(* The endpoint under fairness, on the detector outputs of the streams     *)
(* above.  It is one sequential call: a step that can be taken is taken.   *)

NextLive ==
    \/ NoVideoUrl
    \/ \E status \in StatusCodes : DownloadVideo(status)
    \/ \E raw \in RawFpsValues : OpenCapture(raw)
    \/ \E f \in Frames : frame_count < MaxFrames /\ SkipFrame(f)
    \/ \E f \in Frames, dets \in FallbackOutputs, sink_ok \in BOOLEAN :
          frame_count < MaxFrames /\ SampleFrame(f, dets, sink_ok)
    \/ EndOfStream
    \/ \E created \in BOOLEAN : DownloadRaises(created)
    \/ frame_count < MaxFrames /\ AnalysisRaises
    \/ frame_count < MaxFrames /\ ScreenshotRaises

SpecLive == Init /\ [][NextLive]_vars /\ WF_vars(NextLive)

----------------------------------------------------------------------------
(* Properties *)

Times(s) == [i \in 1..Len(s) |-> s[i].time]

Triggered(r) ==
    ~(r.head_position = "forward" /\ r.tab_switched = "false" /\ r.multiple_face_detection = "false")

\* C1: save_screenshot is called exactly once for each sampled second whose record
\* is not (forward, tab_switched false, multiple_face_detection false), in order,
\* and for no other second and no frame that was not sampled.
C1_CaptureIffTriggered ==
    [i \in 1..Len(screenshot_calls) |-> screenshot_calls[i].timestamp]
        = Times(SelectSeq(results_list, Triggered))

\* a run with a second that captured, a second that did not and a skipped frame
C1_Witness ==
    /\ \E i \in 1..Len(results_list) : Triggered(results_list[i])
    /\ \E i \in 1..Len(results_list) : ~Triggered(results_list[i])
    /\ frame_count > Len(results_list)
    /\ Len(screenshot_calls) > 0

\* C2: the time values of the records are strictly increasing in append order
\* (so no two records share a time) and none is negative.
C2_TimesStrictlyIncreasing ==
    /\ \A i \in 1..Len(results_list) : results_list[i].time >= 0
    /\ \A i, j \in 1..Len(results_list) : i < j => results_list[i].time < results_list[j].time

\* three records, with frames read after the last of them
C2_Witness ==
    /\ Len(results_list) >= 3
    /\ frame_count > Len(results_list)

\* the seconds floor(i / r) of the frames 0 .. n-1
FrameSeconds(n, rate) == { Timestamp(i, rate) : i \in 0..(n - 1) }

\* C3: when the stream of N frames is exhausted, the set of time values of the
\* returned timeline is { floor(i / r) : 0 <= i < N }.
C3_TimesAreFrameSeconds ==
    ret.kind = "analysis_result" =>
        { ret.analysis_result[i].time : i \in 1..Len(ret.analysis_result) }
            = FrameSeconds(frame_count, fps)

\* C4: the three-second stream at 30 fps, all frames identical, no detections and
\* a succeeding sink, returns exactly 3 records, all away, tab_switched false,
\* with a screenshot_url.
C4_ScenarioTimeline ==
    ret.kind = "analysis_result" =>
        /\ Len(ret.analysis_result) = 3
        /\ \A i \in 1..Len(ret.analysis_result) :
              /\ ret.analysis_result[i].head_position = "away"
              /\ ret.analysis_result[i].tab_switched = "false"
              /\ ret.analysis_result[i].screenshot_url # None

\* C5: the first record of a timeline has tab_switched = false.
C5_FirstRecordNotSwitched ==
    results_list # <<>> => results_list[1].tab_switched = "false"

\* a returned timeline of two records whose first frame was not black (the second
\* one is, and differs from it)
C5_Witness ==
    /\ pc = "done"
    /\ Len(results_list) = 2
    /\ results_list[1].tab_switched = "false"
    /\ results_list[2].tab_switched = "true"
    /\ prev_frame = <<Black, Black>>

SameObservation(r, q) ==
    /\ r.time = q.time
    /\ r.head_position = q.head_position
    /\ r.multiple_face_detection = q.multiple_face_detection
    /\ r.tab_switched = q.tab_switched

\* C6: whatever uploads fail, the loop reads the same frames and builds the same
\* records (time, head_position, multiple_face_detection, tab_switched) as with a
\* sink that never fails; a failed upload leaves screenshot_url = None in its
\* record; and the run returns the timeline, not an error.
C6_SinkFailureRecovered ==
    /\ ref # None =>
          /\ frame_count = ref.frame_count
          /\ Len(detector_log) = Len(ref.detector_log)
          /\ Len(results_list) = Len(ref.results_list)
          /\ \A i \in 1..Len(results_list) : SameObservation(results_list[i], ref.results_list[i])
    /\ \A c \in 1..Len(screenshot_calls) :
          ~screenshot_calls[c].ok =>
              \E i \in 1..Len(results_list) :
                 /\ results_list[i].time = screenshot_calls[c].timestamp
                 /\ results_list[i].screenshot_url = None
    /\ (pc = "done" /\ ref # None) =>
          /\ ret.kind = "analysis_result"
          /\ ret.analysis_result = results_list

\* a finished run whose first upload failed and that went on to sample later seconds
C6_Witness ==
    /\ pc = "done"
    /\ ret.kind = "analysis_result"
    /\ Len(screenshot_calls) >= 2
    /\ ~screenshot_calls[1].ok
    /\ screenshot_calls[2].ok
    /\ Len(results_list) >= 3
    /\ frame_count > Len(results_list)

\* C7: a record has head_position = away exactly when the detector returned no
\* detection for the frame sampled for it.
C7_AwayIffNoDetection ==
    /\ Len(detector_log) = Len(results_list)
    /\ \A i \in 1..Len(results_list) :
          results_list[i].head_position = "away" <=> Len(detector_log[i]) = 0

\* a timeline with a record without detections and records with one and with several
C7_Witness ==
    /\ \E i \in 1..Len(results_list) : Len(detector_log[i]) = 0
    /\ \E i \in 1..Len(results_list) : Len(detector_log[i]) = 1
    /\ \E i \in 1..Len(results_list) : Len(detector_log[i]) > 1

\* C8: a record has multiple_face_detection = true exactly when the detector
\* returned at least two detections for the frame sampled for it.
C8_MultipleIffTwoOrMore ==
    /\ Len(detector_log) = Len(results_list)
    /\ \A i \in 1..Len(results_list) :
          results_list[i].multiple_face_detection = "true" <=> Len(detector_log[i]) >= 2

\* a timeline with records of exactly one, exactly two and three detections
C8_Witness ==
    /\ \E i \in 1..Len(results_list) : Len(detector_log[i]) = 1
    /\ \E i \in 1..Len(results_list) : Len(detector_log[i]) = 2
    /\ \E i \in 1..Len(results_list) : Len(detector_log[i]) = 3

\* C9: no record has head_position = unknown: each is forward, left, right or away.
C9_NeverUnknown ==
    \A i \in 1..Len(results_list) :
        results_list[i].head_position \in {"forward", "left", "right", "away"}

\* a timeline whose records are forward, left and away
C9_Witness ==
    /\ \E i \in 1..Len(results_list) : results_list[i].head_position = "away"
    /\ \E i \in 1..Len(results_list) : results_list[i].head_position = "left"
    /\ \E i \in 1..Len(results_list) : results_list[i].head_position = "forward"

\* C10: the endpoint returns an error exactly when no URL was supplied or the
\* download status was not 200; then no frame was read, the detector and
\* save_screenshot were never called, no timeline exists, and a failed download
\* gives the message "Failed to download video from the URL provided".
C10_ErrorIffNoUrlOrDownloadFailed ==
    /\ pc = "done" =>
          (ret.kind = "error" <=> (video_url = "" \/ status_code # 200))
    /\ ret.kind # "none" => pc = "done"
    /\ ret.kind = "error" =>
          /\ frame_count = 0
          /\ detector_log = <<>>
          /\ screenshot_calls = <<>>
          /\ results_list = <<>>
          /\ ret.analysis_result = <<>>
          /\ video_path = None
    /\ (ret.kind = "error" /\ video_url # "") =>
          ret.error = "Failed to download video from the URL provided"

\* the download answered 404 and the endpoint returned
C10_Witness ==
    /\ pc = "done"
    /\ status_code = 404
    /\ ret.kind = "error"

Ended == pc \in {"done", "raised"}

\* C11: every run ends by returning the full timeline or by returning one
\* top-level error; a fatal failure during download, frame analysis or screenshot
\* writing ends in the error result, never in an abort that returns nothing.
C11_TimelineOrError ==
    Ended =>
        \/ ret.kind = "error"
        \/ ret.kind = "analysis_result" /\ ret.analysis_result = results_list

\* C12: when a run ends, on whatever path, no temporary local file it created
\* is left.
C12_NoTempFileLeft ==
    Ended => temp_files = {}

SinkReturnedUrl(t) ==
    \E c \in 1..Len(screenshot_calls) :
        screenshot_calls[c].timestamp = t /\ screenshot_calls[c].ok

\* C14: a record has a screenshot_url exactly when its second triggered capture
\* and the upload of that second returned a URL.
C14_UrlIffCapturedAndUploaded ==
    \A i \in 1..Len(results_list) :
        results_list[i].screenshot_url # None
            <=> (Triggered(results_list[i]) /\ SinkReturnedUrl(results_list[i].time))

\* a timeline with an uploaded screenshot, a failed upload and a second without capture
C14_Witness ==
    /\ \E i \in 1..Len(results_list) : results_list[i].screenshot_url # None
    /\ \E i \in 1..Len(results_list) :
          Triggered(results_list[i]) /\ results_list[i].screenshot_url = None
    /\ \E i \in 1..Len(results_list) : ~Triggered(results_list[i])

\* C15: no two uploads of one run use the same blob name.
C15_BlobNamesDistinct ==
    \A i, j \in 1..Len(screenshot_calls) :
        i # j => screenshot_calls[i].name # screenshot_calls[j].name

\* three uploads in one run, with skipped frames between them
C15_Witness ==
    /\ Len(screenshot_calls) >= 3
    /\ frame_count > Len(results_list)

\* left below 0.3, right above 0.7, forward otherwise, on one xmin in tenths
XminSide(x) == IF x < 3 THEN "left" ELSE IF x > 7 THEN "right" ELSE "forward"

\* C18: with one or more detections, head_position is the side of the last
\* detection alone: left below 0.3, right above 0.7, forward otherwise, 0.3 and
\* 0.7 included.
C18_LastDetectionWins ==
    \A i \in 1..Len(results_list) :
        Len(detector_log[i]) >= 1 =>
            results_list[i].head_position = XminSide(detector_log[i][Len(detector_log[i])])

\* a timeline with xmin exactly 0.3, and with several detections whose first and
\* last lie on different sides
C18_Witness ==
    /\ \E i \in 1..Len(results_list) : detector_log[i] = <<3>>
    /\ \E i \in 1..Len(results_list) :
          /\ Len(detector_log[i]) >= 2
          /\ XminSide(detector_log[i][1]) # XminSide(detector_log[i][Len(detector_log[i])])

\* a step of the loop that read a frame
ReadsFrame == pc = "loop" /\ pc' = "loop" /\ frame_count' = frame_count + 1

\* C16: reading a frame whose second is not after the last processed second
\* changes only the frame counter: no record, no new baseline, no detector or
\* sink call; a frame whose second is after it is analysed and gives one record.
C16_SkippedFrameChangesNothing ==
    [][ ReadsFrame =>
          IF Timestamp(frame_count', fps) <= last_processed_second
          THEN UNCHANGED <<results_list, last_processed_second, prev_frame,
                           detector_log, screenshot_calls, temp_files, ret>>
          ELSE /\ Len(results_list') = Len(results_list) + 1
               /\ Len(detector_log') = Len(detector_log) + 1
               /\ last_processed_second' = Timestamp(frame_count', fps) ]_vars

\* two seconds sampled, then a frame of another content read and skipped
C16_Witness ==
    /\ pc = "loop"
    /\ Len(results_list) = 2
    /\ frame_count > 2
    /\ frame # prev_frame
    /\ Timestamp(frame_count, fps) = last_processed_second

\* C17: each sampled second leaves its own frame in prev_frame, captured or not,
\* uploaded or not, and its record's tab_switched is the scene change between the
\* frame sampled before it and its own; a skipped frame leaves prev_frame alone.
C17_BaselineIsLastSampledFrame ==
    [][ ReadsFrame =>
          IF Len(results_list') > Len(results_list)
          THEN /\ prev_frame' = frame'
               /\ results_list'[Len(results_list')].tab_switched
                     = StrLower(detect_tab_switch(prev_frame, frame'))
          ELSE prev_frame' = prev_frame ]_vars

\* three sampled seconds with a skipped frame: the first upload failed, the second
\* second did not capture, and the third reports a switch against the second
C17_Witness ==
    /\ Len(results_list) = 3
    /\ frame_count > 3
    /\ Triggered(results_list[1]) /\ results_list[1].screenshot_url = None
    /\ ~Triggered(results_list[2])
    /\ results_list[3].tab_switched = "true"

\* the seconds sampled from n frames at 30 frames per second: that of frame
\* count 1, then one at every 30th frame count
ThirtyFpsTimes(n) ==
    IF n = 0 THEN <<>> ELSE [i \in 1..(1 + (n \div 30)) |-> i - 1]

\* C19: when the reported frame rate is zero or negative, the loop runs at 30
\* frames per second without failing, and samples the frames a stream declared
\* at 30 is sampled at.
C19_FallbackIsThirty ==
    raw_fps # None =>
        /\ (raw_fps[1] <= 0 \/ raw_fps = <<30, 1>>) <=> fps = <<30, 1>>
        /\ fps[1] > 0
        /\ fps = <<30, 1>> => Times(results_list) = ThirtyFpsTimes(frame_count)

\* a returned timeline of three seconds read at an unavailable frame rate
C19_Witness ==
    /\ pc = "done"
    /\ raw_fps = <<0, 1>>
    /\ Len(ret.analysis_result) = 3

\* C20: the loop stops reading; once the source is exhausted the accumulated
\* timeline is returned, not an error; the returned timeline is empty exactly
\* when no frame was read and never has more records than frames read.
C20_StopsAndReturnsTimeline ==
    /\ [](ret.kind = "analysis_result" =>
             /\ ret.analysis_result = results_list
             /\ Len(results_list) = 0 <=> frame_count = 0
             /\ Len(results_list) <= frame_count)
    /\ (pc = "loop") ~> Ended
    /\ (pc = "loop" /\ frame_count = MaxFrames) ~> (pc = "done" /\ ret.kind = "analysis_result")

\* the whole source was read, fewer records than frames, and the timeline returned
C20_Witness ==
    /\ pc = "done"
    /\ frame_count = MaxFrames
    /\ ret.kind = "analysis_result"
    /\ Len(ret.analysis_result) >= 1
    /\ Len(ret.analysis_result) < frame_count

====
